---- MODULE Spec2Model ----
(***************************************************************************)
(* A model of MicahParks/keyfunc.                                          *)
(*                                                                         *)
(*  - Spec / SpecLive: the JWKS client of get.go and jwks.go: Get, the     *)
(*    background refresh goroutine with its rate limiter and deferred      *)
(*    refresh goroutine, refresh, and getKey as called by Keyfunc.         *)
(*  - SpecV3: the jwkset-backed storage of storage.go (newStorage and its  *)
(*    refresh goroutine) read through keyfunc.Keyfunc of keyfunc.go.       *)
(***************************************************************************)
EXTENDS Integers, Sequences, FiniteSets, TLC

\* ---------------------------------------------------------------- bounds
NumCallers == 1       \* concurrent goroutines calling Keyfunc
MaxTime == 2          \* the clock runs over 0..MaxTime
RateLimit == 2        \* the non-zero value tried for Options.RefreshRateLimit
Interval == 2         \* the non-zero value tried for Options.RefreshInterval
MaxDeferred == 2      \* slots for deferred refresh goroutines

Callers == 1..NumCallers
LoopTask == 0
DefIds == 1..MaxDeferred
Tasks == {LoopTask} \cup DefIds
MuxFree == -1
Noop == 0             \* the timer's func() {} handle
NoCopy == [of |-> "none", val |-> 0, shared |-> FALSE]   \* nothing obtained yet
ZeroTime == -100      \* the zero time.Time, long before the clock starts

KIDs == {"k1", "k2"}
EmptyKid == "<empty>" \* an entry of the keys array without a kid: key.ID == ""
\* The key IDs the map j.keys can hold.
StoreKIDs == KIDs \cup {EmptyKid}
NoKid == "<none>"     \* the token header has no (string) kid
NoKey == ""           \* nil key
Algs == {"RS256", "RS512"}
NoAlg == "<none>"     \* the token header has no (string) alg

\* ------------------------------------------------------- remote payloads
\* A raw JWK entry: kid, kty, alg, use and its key material.
Entry(kid, kty, alg, use, mat) ==
    [kid |-> kid, kty |-> kty, alg |-> alg, use |-> use, mat |-> mat]

\* The responses the remote serves, by id. json: does the envelope parse;
\* status: the HTTP status the body comes with.
BodyOf(b) ==
    CASE b = 1 -> [json |-> TRUE, status |-> "200",
                   keys |-> << Entry("k1", "RSA", "RS256", "sig", "r1"),
                               Entry("k2", "BAD", "", "sig", "r3") >>]
      [] b = 2 -> [json |-> TRUE, status |-> "200",
                   keys |-> << Entry("k1", "RSA", "RS256", "sig", "r1"),
                               Entry("k2", "RSA", "", "enc", "r2") >>]
      [] b = 4 -> [json |-> TRUE, status |-> "200", keys |-> << >>]
      [] b = 5 -> [json |-> TRUE, status |-> "500",
                   keys |-> << Entry("k1", "RSA", "RS256", "sig", "r1"),
                               Entry("k2", "BAD", "", "sig", "r3") >>]
      [] b = 6 -> [json |-> TRUE, status |-> "200",
                   keys |-> << Entry("k2", "RSA", "RS256", "sig", "r2"),
                               Entry(EmptyKid, "RSA", "RS256", "sig", "r4") >>]
      [] OTHER -> [json |-> FALSE, status |-> "200", keys |-> << >>]
BodyIds == 1..4
InitBodyIds == {1}    \* the body served while Get runs
NoBody == 0           \* j.raw == nil
ErrResp == -1         \* the HTTP round trip or the body read failed
Responses == BodyIds \cup {ErrResp}

\* Options.GivenKeys: kid |-> key material.
GivenKIDs == {"k1"}
GivenMat(kid) == "g1"
GivenAlg(kid) == "RS512"

VARIABLES
    \* configuration (Options), fixed at construction but for the
    \* cancellation of Options.Ctx
    refreshInterval, refreshRateLimit, refreshUnknownKID, givenKIDOverride,
    optionsCtx, built,
    \* JWKS
    keys, raw, ctxDone, refreshRequests,
    \* backgroundRefresh locals
    lastRefresh, queueOnce, refreshMux, loopPc, loopCur, timerAt,
    defPc, defWakeAt,
    \* refresh() invocations, per task
    fpc, fbody,
    \* Keyfunc/getKey callers
    cpc, ckid, cres, signalled,
    \* clock and history
    now, fetchLog, lastFetch, handlerCalled, served,
    \* storage.go / keyfunc.go
    m, v3pc, v3todo, v3jwks, useWhitelist, kres,
    \* what a caller of RawJWKS or ReadOnlyKeys holds
    got

cfgVars == <<refreshInterval, refreshRateLimit, refreshUnknownKID,
             givenKIDOverride, optionsCtx, built>>
storeVars == <<keys, raw>>
coordVars == <<lastRefresh, queueOnce, refreshMux, loopPc, loopCur, timerAt,
               defPc, defWakeAt, fpc, fbody>>
callVars == <<cpc, ckid, cres>>
ghostVars == <<fetchLog, lastFetch, handlerCalled, served>>
v1Vars == <<storeVars, ctxDone, refreshRequests, coordVars, callVars, signalled,
            now, ghostVars>>
v3Vars == <<m, v3pc, v3todo, v3jwks, useWhitelist, kres>>
readerVars == <<got>>
vars == <<cfgVars, v1Vars, v3Vars, readerVars>>

\* ------------------------------------------------------------ NewJSON
\* j.mux as the accessors hold it: RawJWKS holds the read lock while it
\* copies, ReadOnlyKeys holds the lock taken with j.mux.Lock().
MuxReadLocked == got.of = "reading"
MuxWriteLocked == got.of = "copying"

SupportedKty == {"EC", "OKP", "oct", "RSA"}

RECURSIVE ParseFrom(_, _)
\* The loop of NewJSON over rawKS.Keys: a later entry overwrites an earlier one.
ParseFrom(es, acc) ==
    IF es = << >> THEN acc
    ELSE LET e == Head(es)
         IN  ParseFrom(Tail(es),
                 IF e.kty \in SupportedKty
                 THEN [acc EXCEPT ![e.kid] = e.mat]
                 ELSE acc)

NewJSON(b) == ParseFrom(BodyOf(b).keys, [k \in StoreKIDs |-> NoKey])

MergeGivenDropMut(updated) ==
    [k \in StoreKIDs |-> IF k \in GivenKIDs THEN GivenMat(k) ELSE NoKey]
\* refresh: j.keys = updated.keys, then the given keys are written back.
MergeGiven(updated) ==
    [k \in StoreKIDs |->
        IF k \in GivenKIDs /\ (givenKIDOverride \/ updated[k] = NoKey)
        THEN GivenMat(k)
        ELSE updated[k]]

HasBackgroundIntervalOnlyMut == refreshInterval # 0
HasBackground == refreshInterval # 0 \/ refreshUnknownKID

\* The rate limiter's test in backgroundRefresh.
RateLimitedNeverMut == FALSE
RateLimited ==
    refreshRateLimit # 0 /\ lastRefresh + refreshRateLimit > now

\* cancel() on a request's handle: the timer's handle does nothing, and
\* neither does the handle of a call that has returned.
SignalNoneMut(h) == signalled
Signal(h) == IF h \in Callers /\ cpc[h] = "wait" THEN signalled \cup {h}
                                                  ELSE signalled

\* A handle left behind by a call of c that has returned cancels a context
\* nobody waits on: it wakes nobody, as the timer's no-op handle, but it was
\* sent by a demand.
StaleDemand == NumCallers + 1
Retired(h, c) == IF h = c THEN StaleDemand ELSE h

\* A call's result.
NoRes == [key |-> NoKey, err |-> "-"]
Res(key, err) == [key |-> key, err |-> err]

\* The last two completed fetches, oldest first: when, and by the
\* constructor ("ctor") or the background goroutines ("bg").
NoFetch == [t |-> ZeroTime, by |-> "none"]
Logged == << fetchLog[2], [t |-> now, by |-> "bg"] >>

\* A body's valid keys hold kid.
BodyHasKid(b, kid) == kid \in KIDs /\ b # NoBody /\ NewJSON(b)[kid] # NoKey

\* History of the calls whose request the loop served with a fetch: "hit"
\* when that fetch returned nil for a body holding the kid as a valid key,
\* "nohit" otherwise; "late" for a hit that came when the call had already
\* returned; "lost" when, the call still waiting to read, a later
\* replacement of the key map took the kid out again.
Served(t, res, body, newKeys) ==
    [c \in Callers |->
        IF t = LoopTask /\ loopCur = c
        THEN IF res = "ok" /\ BodyHasKid(body, ckid[c])
             THEN IF cpc[c] = "wait" THEN "hit" ELSE "late"
             ELSE "nohit"
        ELSE IF served[c] = "hit" /\ cpc[c] = "wait" /\ newKeys[ckid[c]] = NoKey
        THEN "lost"
        ELSE served[c]]

\* ------------------------------------------------ storage.go, keyfunc.go
NoJWK == [src |-> "none", alg |-> "", use |-> "", mat |-> NoKey]
GivenJWK(kid) ==
    [src |-> "given", alg |-> GivenAlg(kid), use |-> "", mat |-> GivenMat(kid)]
RemoteJWK(e) == [src |-> "remote", alg |-> e.alg, use |-> e.use, mat |-> e.mat]
Uses == {"", "sig", "enc"}

\* addGivenKeys run to its end on storage s.
AddGivenAll(s) == [k \in KIDs |-> IF k \in GivenKIDs THEN GivenJWK(k) ELSE s[k]]

RECURSIVE WriteAll(_, _)
\* The refresh closure's loop over jwks.Keys run to its end on storage s.
WriteAll(es, s) ==
    IF es = << >> THEN s
    ELSE WriteAll(Tail(es), [s EXCEPT ![Head(es).kid] = RemoteJWK(Head(es))])

\* m.WriteKey of the JWK made from a remote entry.
WriteKey(s, e) == [s EXCEPT ![e.kid] = RemoteJWK(e)]

\* The JWK "alg" test of Keyfunc.
AlgMatchesAnyMut(jwk, alg) == TRUE
AlgMatches(jwk, alg) == ~(jwk.alg # "" /\ jwk.alg # alg)

\* The JWK "use" test of Keyfunc against the whitelist wl.
UseAllowedAnyMut(jwk, wl) == TRUE
UseAllowedAbsentMut(jwk, wl) == jwk.use = "" \/ jwk.use \in wl
UseAllowed(jwk, wl) == ~(wl # {} /\ jwk.use \notin wl)

\* keyfunc.Keyfunc on a token whose header holds kid and alg, reading
\* storage s with whitelist wl: the outcome, with the JWK that was read.
V3Idle == [key |-> NoKey, err |-> "-", kid |-> NoKid, alg |-> NoAlg, jwk |-> NoJWK]
KeyfuncReadsFirstMut(kid, alg, s, wl) ==
    LET out(jwk, key, err) ==
            [key |-> key, err |-> err, kid |-> kid, alg |-> alg, jwk |-> jwk]
    IN  IF kid = NoKid THEN out(NoJWK, NoKey, "ErrKID")
        ELSE IF s[kid].src = "none" THEN out(NoJWK, NoKey, "ErrKeyRead")
        ELSE IF alg = NoAlg THEN out(s[kid], NoKey, "ErrAlg")
        ELSE IF ~AlgMatches(s[kid], alg)
             THEN out(s[kid], NoKey, "ErrJWKAlgMismatch")
        ELSE IF ~UseAllowed(s[kid], wl)
             THEN out(s[kid], NoKey, "ErrJWKUseMismatch")
        ELSE out(s[kid], s[kid].mat, "nil")
Keyfunc(kid, alg, s, wl) ==
    LET out(jwk, key, err) ==
            [key |-> key, err |-> err, kid |-> kid, alg |-> alg, jwk |-> jwk]
    IN  IF kid = NoKid THEN out(NoJWK, NoKey, "ErrKID")
        ELSE IF alg = NoAlg THEN out(NoJWK, NoKey, "ErrAlg")
        ELSE IF s[kid].src = "none" THEN out(NoJWK, NoKey, "ErrKeyRead")
        ELSE IF ~AlgMatches(s[kid], alg)
             THEN out(s[kid], NoKey, "ErrJWKAlgMismatch")
        ELSE IF ~UseAllowed(s[kid], wl)
             THEN out(s[kid], NoKey, "ErrJWKUseMismatch")
        ELSE out(s[kid], s[kid].mat, "nil")

\* ------------------------------------------------------------------ Init
\* The Options tried: RefreshInterval, RefreshRateLimit, RefreshUnknownKID,
\* GivenKIDOverride, and whether a Ctx is supplied.
Configs ==
    { <<Interval, RateLimit, TRUE, FALSE, FALSE>>,
      <<0, RateLimit, TRUE, TRUE, FALSE>>,
      <<Interval, 0, TRUE, TRUE, FALSE>>,
      <<Interval, 0, FALSE, TRUE, TRUE>>,
      <<0, 0, TRUE, FALSE, FALSE>>,
      <<0, 0, FALSE, FALSE, FALSE>> }

\* Get has returned without error: the first refresh stored a body that
\* parses, and the background goroutine, if any, has been launched.
InitV1Store ==
    \E b \in InitBodyIds :
        /\ raw = b
        /\ keys = MergeGiven(NewJSON(b))

InitCoord ==
    /\ ctxDone = FALSE
    /\ refreshRequests = << >>
    /\ lastRefresh = ZeroTime
    /\ queueOnce = FALSE
    /\ refreshMux = MuxFree
    /\ loopPc = IF HasBackground THEN "start" ELSE "none"
    /\ loopCur = Noop
    /\ timerAt = 0
    /\ defPc = [d \in DefIds |-> "none"]
    /\ defWakeAt = [d \in DefIds |-> 0]
    /\ fpc = [t \in Tasks |-> "none"]
    /\ fbody = [t \in Tasks |-> NoBody]

InitCallers ==
    /\ cpc = [c \in Callers |-> "idle"]
    /\ ckid = [c \in Callers |-> NoKid]
    /\ cres = [c \in Callers |-> NoRes]
    /\ signalled = {}
    /\ served = [c \in Callers |-> "none"]

V3Rest ==
    /\ m = [k \in KIDs |-> NoJWK]
    /\ v3pc = "off"
    /\ v3todo = << >>
    /\ v3jwks = NoBody
    /\ useWhitelist = {}
    /\ kres = V3Idle

Init ==
    /\ \E o \in Configs :
          /\ refreshInterval = o[1]
          /\ refreshRateLimit = o[2]
          /\ refreshUnknownKID = o[3]
          /\ givenKIDOverride = o[4]
          /\ optionsCtx = IF o[5] THEN "live" ELSE "none"
    /\ built = "yes"
    /\ InitV1Store
    /\ InitCoord
    /\ InitCallers
    /\ now = 0
    /\ fetchLog = << NoFetch, [t |-> 0, by |-> "ctor"] >>
    /\ lastFetch = [res |-> "ok", body |-> raw, replaced |-> TRUE]
    /\ handlerCalled = FALSE
    /\ V3Rest
    /\ got = NoCopy

\* ---------------------------------------------------- backgroundRefresh
QueueCap == 1

NextTimer == IF refreshInterval # 0 THEN now + refreshInterval ELSE timerAt

\* The goroutine starts: the rate limiting assets are created.
LoopStart ==
    /\ loopPc = "start"
    /\ lastRefresh' = IF refreshRateLimit # 0 THEN now - refreshRateLimit
                                              ELSE ZeroTime
    /\ loopPc' = "select"
    /\ timerAt' = NextTimer
    /\ UNCHANGED <<cfgVars, storeVars, ctxDone, refreshRequests, queueOnce,
                   refreshMux, loopCur, defPc, defWakeAt, fpc, fbody, callVars,
                   signalled, now, ghostVars, v3Vars, readerVars>>

\* case <-refreshInterval: the inner select sends a no-op request, or drops
\* it when the channel is full, or returns when the context is done.
\* The loop's refreshInterval channel: time.After(j.refreshInterval), or a
\* channel nothing is ever sent on when the interval is zero.
TimerChannelSendsAlwaysMut == TRUE
TimerChannelSends == refreshInterval # 0

\* The select around the timer's send to j.refreshRequests has a default
\* case: with the channel full the send is given up.
SendHasDefaultNotMut == FALSE
SendHasDefault == TRUE

LoopTimer ==
    /\ loopPc = "select"
    /\ TimerChannelSends
    /\ now >= timerAt
    /\ \/ /\ ctxDone
          /\ loopPc' = "exit"
          /\ UNCHANGED <<refreshRequests, timerAt>>
       \/ /\ Len(refreshRequests) < QueueCap
          /\ refreshRequests' = Append(refreshRequests, Noop)
          /\ loopPc' = "select"
          /\ timerAt' = NextTimer
       \/ /\ ~ctxDone
          /\ Len(refreshRequests) >= QueueCap
          /\ SendHasDefault
          /\ loopPc' = "select"
          /\ timerAt' = NextTimer
          /\ UNCHANGED refreshRequests
    /\ UNCHANGED <<cfgVars, storeVars, ctxDone, lastRefresh, queueOnce,
                   refreshMux, loopCur, defPc, defWakeAt, fpc, fbody, callVars,
                   signalled, now, ghostVars, v3Vars, readerVars>>

\* case cancel := <-j.refreshRequests
LoopRecv ==
    /\ loopPc = "select"
    /\ refreshRequests # << >>
    /\ loopCur' = Head(refreshRequests)
    /\ refreshRequests' = Tail(refreshRequests)
    /\ loopPc' = "lock"
    /\ UNCHANGED <<cfgVars, storeVars, ctxDone, lastRefresh, queueOnce,
                   refreshMux, timerAt, defPc, defWakeAt, fpc, fbody, callVars,
                   signalled, now, ghostVars, v3Vars, readerVars>>

\* case <-j.ctx.Done(): return
LoopDone ==
    /\ loopPc = "select"
    /\ ctxDone
    /\ loopPc' = "exit"
    /\ UNCHANGED <<cfgVars, storeVars, ctxDone, refreshRequests, lastRefresh,
                   queueOnce, refreshMux, loopCur, timerAt, defPc, defWakeAt,
                   fpc, fbody, callVars, signalled, now, ghostVars, v3Vars, readerVars>>

FreeDefs == {d \in DefIds : defPc[d] = "none"}

\* queueOnce.Do(...): does the deferred goroutine get launched.
OnceFiresAlwaysMut == TRUE
OnceFires == ~queueOnce

\* refreshMux.Lock() returns only while no goroutine holds the mutex.
MuxLockableAlwaysMut == TRUE
MuxLockable == refreshMux = MuxFree

\* refreshMux.Lock() with the rate limit in force: cancel() at once, and
\* queueOnce launches the deferred refresh goroutine.
LoopRateLimited ==
    /\ loopPc = "lock"
    /\ MuxLockable
    /\ RateLimited
    /\ signalled' = Signal(loopCur)
    /\ IF OnceFires /\ FreeDefs # {}
       THEN /\ queueOnce' = TRUE
            /\ defPc' = [defPc EXCEPT ![CHOOSE d \in FreeDefs :
                                          \A e \in FreeDefs : d <= e] = "lock1"]
       ELSE UNCHANGED <<queueOnce, defPc>>
    /\ loopPc' = "select"
    /\ loopCur' = Noop
    /\ timerAt' = NextTimer
    /\ UNCHANGED <<cfgVars, storeVars, ctxDone, refreshRequests, lastRefresh,
                   refreshMux, defWakeAt, fpc, fbody, callVars, now, ghostVars,
                   v3Vars, readerVars>>

\* refreshMux.Lock() without the rate limit in force: j.refresh() starts.
LoopRefreshBegin ==
    /\ loopPc = "lock"
    /\ MuxLockable
    /\ ~RateLimited
    /\ refreshMux' = LoopTask
    /\ loopPc' = "refresh"
    /\ fpc' = [fpc EXCEPT ![LoopTask] = "http"]
    /\ UNCHANGED <<cfgVars, storeVars, ctxDone, refreshRequests, lastRefresh,
                   queueOnce, loopCur, timerAt, defPc, defWakeAt, fbody,
                   callVars, signalled, now, ghostVars, v3Vars, readerVars>>

\* The deferred goroutine reads lastRefresh under refreshMux.
DefComputeWait(d) ==
    /\ defPc[d] = "lock1"
    /\ MuxLockable
    /\ defWakeAt' = [defWakeAt EXCEPT ![d] = lastRefresh + refreshRateLimit]
    /\ defPc' = [defPc EXCEPT ![d] = "sleep"]
    /\ UNCHANGED <<cfgVars, storeVars, ctxDone, refreshRequests, lastRefresh,
                   queueOnce, refreshMux, loopPc, loopCur, timerAt, fpc, fbody,
                   callVars, signalled, now, ghostVars, v3Vars, readerVars>>

\* Has the deferred goroutine's time.After(wait) fired.
DefTimerFiredEarlyMut(d) == TRUE
DefTimerFired(d) == now >= defWakeAt[d]

\* select { case <-j.ctx.Done(): return; case <-time.After(wait): }
DefWake(d) ==
    /\ defPc[d] = "sleep"
    /\ \/ /\ ctxDone
          /\ defPc' = [defPc EXCEPT ![d] = "none"]
          /\ defWakeAt' = [defWakeAt EXCEPT ![d] = 0]
       \/ /\ DefTimerFired(d)
          /\ defPc' = [defPc EXCEPT ![d] = "lock2"]
          /\ UNCHANGED defWakeAt
    /\ UNCHANGED <<cfgVars, storeVars, ctxDone, refreshRequests, lastRefresh,
                   queueOnce, refreshMux, loopPc, loopCur, timerAt, fpc, fbody,
                   callVars, signalled, now, ghostVars, v3Vars, readerVars>>

\* The deferred goroutine takes refreshMux and j.refresh() starts.
DefRefreshBegin(d) ==
    /\ defPc[d] = "lock2"
    /\ MuxLockable
    /\ refreshMux' = d
    /\ defPc' = [defPc EXCEPT ![d] = "refresh"]
    /\ fpc' = [fpc EXCEPT ![d] = "http"]
    /\ UNCHANGED <<cfgVars, storeVars, ctxDone, refreshRequests, lastRefresh,
                   queueOnce, loopPc, loopCur, timerAt, defWakeAt, fbody,
                   callVars, signalled, now, ghostVars, v3Vars, readerVars>>

\* --------------------------------------------------------------- refresh
\* if err := j.refresh(); err != nil && j.refreshErrorHandler != nil, with
\* a handler configured.
HandlerInvokedNeverMut(res) == FALSE
HandlerInvoked(res) == res = "err"

\* lastRefresh = time.Now() follows j.refresh() whatever it returned.
RefreshStampOnSuccessMut(res) == IF res = "ok" THEN now ELSE lastRefresh
RefreshStamp(res) == now

\* What follows j.refresh() in the goroutine that called it, task t, the
\* refresh having returned res for response body: lastRefresh = time.Now(),
\* then cancel() in the loop, queueOnce = sync.Once{} in the deferred
\* goroutine, and refreshMux.Unlock(). newKeys is the key map it left. An
\* error goes to j.refreshErrorHandler first.
AfterRefresh(t, res, body, newKeys) ==
    /\ refreshMux' = MuxFree
    /\ fpc' = [fpc EXCEPT ![t] = "none"]
    /\ fbody' = [fbody EXCEPT ![t] = NoBody]
    /\ lastRefresh' = RefreshStamp(res)
    /\ fetchLog' = Logged
    /\ lastFetch' = [res |-> res, body |-> body, replaced |-> fpc[t] = "parsed"]
    /\ handlerCalled' = (handlerCalled \/ HandlerInvoked(res))
    /\ served' = Served(t, res, body, newKeys)
    /\ IF t = LoopTask
       THEN /\ signalled' = Signal(loopCur)
            /\ loopPc' = "select"
            /\ loopCur' = Noop
            /\ timerAt' = NextTimer
            /\ UNCHANGED <<queueOnce, defPc, defWakeAt>>
       ELSE /\ queueOnce' = FALSE
            /\ defPc' = [defPc EXCEPT ![t] = "none"]
            /\ defWakeAt' = [defWakeAt EXCEPT ![t] = 0]
            /\ UNCHANGED <<signalled, loopPc, loopCur, timerAt>>

\* refresh: len(jwksBytes) != 0 && bytes.Equal(jwksBytes, j.raw).
SameAsRawNeverMut(resp) == FALSE
SameAsRaw(resp) == resp = raw

\* refresh up to the parse: the HTTP round trip ends with resp. A failed
\* round trip or body read returns the error; a body equal to j.raw returns
\* nil; otherwise j.raw is set and the body parsed by NewJSON.
\* The request carries a context derived from j.ctx: once j.ctx is cancelled
\* client.Do and the read of the body fail.
CtxAllowsAnyMut(resp) == TRUE
CtxAllows(resp) == ctxDone => resp = ErrResp

RefreshHTTP(t, resp) ==
    /\ fpc[t] = "http"
    /\ CtxAllows(resp)
    /\ IF resp = ErrResp
       THEN /\ AfterRefresh(t, "err", NoBody, keys)
            /\ UNCHANGED raw
       ELSE IF SameAsRaw(resp)
       THEN /\ AfterRefresh(t, "ok", resp, keys)
            /\ UNCHANGED raw
       ELSE IF ~BodyOf(resp).json
       THEN /\ raw' = resp
            /\ AfterRefresh(t, "err", resp, keys)
       ELSE /\ raw' = resp
            /\ fpc' = [fpc EXCEPT ![t] = "parsed"]
            /\ fbody' = [fbody EXCEPT ![t] = resp]
            /\ UNCHANGED <<refreshMux, lastRefresh, fetchLog, lastFetch, handlerCalled,
                           signalled, served, loopPc, loopCur, timerAt,
                           queueOnce, defPc, defWakeAt>>
    /\ UNCHANGED <<cfgVars, keys, ctxDone, refreshRequests, callVars, now, v3Vars, readerVars>>

\* refresh from j.mux.Lock() on: the key map is replaced and the given keys
\* are merged in, under the write lock.
\* j.mux.Lock() waits for whoever holds j.mux.
RefreshReplace(t) ==
    /\ fpc[t] = "parsed"
    /\ ~MuxReadLocked /\ ~MuxWriteLocked
    /\ keys' = MergeGiven(NewJSON(fbody[t]))
    /\ AfterRefresh(t, "ok", fbody[t], MergeGiven(NewJSON(fbody[t])))
    /\ UNCHANGED <<cfgVars, raw, ctxDone, refreshRequests, callVars, now, v3Vars, readerVars>>

\* ------------------------------------------------------- Keyfunc, getKey
Done(c, r) ==
    /\ cpc' = [cpc EXCEPT ![c] = "done"]
    /\ cres' = [cres EXCEPT ![c] = r]

\* jsonKey, ok = j.keys[kid] under j.mux.RLock(), the first read of getKey.
LookupMissMut(kid) == NoKey
Lookup(kid) == keys[kid]

\* Keyfunc reads the kid of the header and getKey reads the key map.
KeyfuncCall(c, kid) ==
    /\ built = "yes"
    /\ kid # NoKid => ~MuxWriteLocked
    /\ cpc[c] \in {"idle", "done"}
    /\ ckid' = [ckid EXCEPT ![c] = kid]
    /\ served' = [served EXCEPT ![c] = "none"]
    /\ refreshRequests' = [i \in 1..Len(refreshRequests) |->
                              Retired(refreshRequests[i], c)]
    /\ loopCur' = Retired(loopCur, c)
    /\ IF kid = NoKid THEN Done(c, Res(NoKey, "ErrKID"))
       ELSE IF Lookup(kid) # NoKey THEN Done(c, Res(Lookup(kid), "nil"))
       ELSE /\ cpc' = [cpc EXCEPT ![c] = "miss"]
            /\ cres' = [cres EXCEPT ![c] = NoRes]
    /\ UNCHANGED <<cfgVars, storeVars, ctxDone, lastRefresh, queueOnce,
                   refreshMux, loopPc, timerAt, defPc, defWakeAt, fpc, fbody,
                   signalled, now, fetchLog, lastFetch, handlerCalled, v3Vars, readerVars>>

\* getKey after a miss: without RefreshUnknownKID, ErrKIDNotFound; with it,
\* the select over j.ctx.Done(), the send of the request and the default.
GetKeyMiss(c) ==
    /\ cpc[c] = "miss"
    /\ IF ~refreshUnknownKID
       THEN /\ Done(c, Res(NoKey, "ErrKIDNotFound"))
            /\ UNCHANGED refreshRequests
       ELSE \/ /\ ctxDone
               /\ Done(c, Res(NoKey, "nil"))
               /\ UNCHANGED refreshRequests
            \/ /\ Len(refreshRequests) < QueueCap
               /\ refreshRequests' = Append(refreshRequests, c)
               /\ cpc' = [cpc EXCEPT ![c] = "wait"]
               /\ UNCHANGED cres
            \/ /\ ~ctxDone
               /\ Len(refreshRequests) >= QueueCap
               /\ Done(c, Res(NoKey, "ErrKIDNotFound"))
               /\ UNCHANGED refreshRequests
    /\ UNCHANGED <<cfgVars, storeVars, ctxDone, coordVars, ckid, signalled, now,
                   ghostVars, v3Vars, readerVars>>

\* The second read of the key map, after the wait.
ReReadStaleMut(kid) == NoKey
ReRead(kid) == keys[kid]

\* <-ctx.Done() returns once the handle was cancelled or j.ctx is done; the
\* key map is read again.
GetKeyWake(c) ==
    /\ cpc[c] = "wait"
    /\ ~MuxWriteLocked
    /\ c \in signalled \/ ctxDone
    /\ signalled' = signalled \ {c}
    /\ IF ReRead(ckid[c]) # NoKey
       THEN Done(c, Res(ReRead(ckid[c]), "nil"))
       ELSE Done(c, Res(NoKey, "ErrKIDNotFound"))
    /\ UNCHANGED <<cfgVars, storeVars, ctxDone, refreshRequests, coordVars,
                   ckid, now, ghostVars, v3Vars, readerVars>>

\* EndBackground: j.cancel(), when a background goroutine was launched.
EndBackground ==
    /\ built = "yes"
    /\ HasBackground
    /\ ~ctxDone
    /\ ctxDone' = TRUE
    /\ UNCHANGED <<cfgVars, storeVars, refreshRequests, coordVars, callVars,
                   signalled, now, ghostVars, v3Vars, readerVars>>

\* The caller cancels the context it gave as Options.Ctx. applyOptions made
\* jwks.ctx a child of it, but with a background goroutine Get has replaced
\* jwks.ctx by a child of context.Background().
CancelOptionsCtx ==
    /\ built = "yes"
    /\ optionsCtx = "live"
    /\ optionsCtx' = "done"
    /\ ctxDone' = IF HasBackground THEN ctxDone ELSE TRUE
    /\ UNCHANGED <<refreshInterval, refreshRateLimit, refreshUnknownKID,
                   givenKIDOverride, built, storeVars, refreshRequests, coordVars,
                   callVars, signalled, now, ghostVars, v3Vars, readerVars>>

Tick ==
    /\ built = "yes"
    /\ now < MaxTime
    /\ now' = now + 1
    /\ UNCHANGED <<cfgVars, storeVars, ctxDone, refreshRequests, coordVars,
                   callVars, signalled, ghostVars, v3Vars, readerVars>>

Next ==
    \/ LoopStart
    \/ LoopTimer
    \/ LoopRecv
    \/ LoopDone
    \/ LoopRateLimited
    \/ LoopRefreshBegin
    \/ \E d \in DefIds : DefComputeWait(d)
    \/ \E d \in DefIds : DefWake(d)
    \/ \E d \in DefIds : DefRefreshBegin(d)
    \/ \E t \in Tasks, resp \in Responses : RefreshHTTP(t, resp)
    \/ \E t \in Tasks : RefreshReplace(t)
    \/ \E c \in Callers, kid \in KIDs \cup {NoKid} : KeyfuncCall(c, kid)
    \/ \E c \in Callers : GetKeyMiss(c)
    \/ \E c \in Callers : GetKeyWake(c)
    \/ EndBackground
    \/ CancelOptionsCtx
    \/ Tick

Spec == Init /\ [][Next]_vars

\* ------------------------------------------------------------------ Get
\* Get is about to be called with the Options chosen.
InitGet ==
    /\ \E o \in Configs :
          /\ refreshInterval = o[1]
          /\ refreshRateLimit = o[2]
          /\ refreshUnknownKID = o[3]
          /\ givenKIDOverride = o[4]
          /\ optionsCtx = IF o[5] THEN "live" ELSE "none"
    /\ built = "no"
    /\ keys = [k \in StoreKIDs |-> NoKey]
    /\ raw = NoBody
    /\ ctxDone = FALSE
    /\ refreshRequests = << >>
    /\ lastRefresh = ZeroTime
    /\ queueOnce = FALSE
    /\ refreshMux = MuxFree
    /\ loopPc = "none"
    /\ loopCur = Noop
    /\ timerAt = 0
    /\ defPc = [d \in DefIds |-> "none"]
    /\ defWakeAt = [d \in DefIds |-> 0]
    /\ fpc = [t \in Tasks |-> "none"]
    /\ fbody = [t \in Tasks |-> NoBody]
    /\ InitCallers
    /\ now = 0
    /\ fetchLog = << NoFetch, NoFetch >>
    /\ lastFetch = [res |-> "none", body |-> NoBody, replaced |-> FALSE]
    /\ handlerCalled = FALSE
    /\ V3Rest
    /\ got = NoCopy

\* The responses tried for the refresh inside Get.
GetResponses ==
    InitBodyIds \cup {ErrResp} \cup {b \in BodyIds : ~BodyOf(b).json} \cup {5, 6}

\* The outcome of jwks.refresh() on a new JWKS for response resp.
FirstRefresh(resp) ==
    IF resp = ErrResp \/ ~BodyOf(resp).json THEN "err" ELSE "ok"

\* if err = jwks.refresh(); err != nil { return nil, err }
GetReturnsErrorNeverMut(res) == FALSE
GetReturnsError(res) == res = "err"

\* Get: the options are applied, the first refresh runs in the calling
\* goroutine, its error is returned with no JWKS, and otherwise the
\* background goroutine is launched when the options ask for one.
Get(resp) ==
    /\ built = "no"
    /\ fetchLog' = << NoFetch, [t |-> now, by |-> "ctor"] >>
    /\ lastFetch' = [res |-> FirstRefresh(resp),
                     body |-> IF resp = ErrResp THEN NoBody ELSE resp,
                     replaced |-> FirstRefresh(resp) = "ok"]
    /\ IF GetReturnsError(FirstRefresh(resp))
       THEN /\ built' = "failed"
            /\ UNCHANGED <<storeVars, loopPc>>
       ELSE /\ built' = "yes"
            /\ IF FirstRefresh(resp) = "ok"
               THEN /\ raw' = resp
                    /\ keys' = MergeGiven(NewJSON(resp))
               ELSE UNCHANGED storeVars
            /\ loopPc' = IF HasBackground THEN "start" ELSE "none"
    /\ UNCHANGED <<refreshInterval, refreshRateLimit, refreshUnknownKID,
                   givenKIDOverride, optionsCtx, ctxDone, refreshRequests,
                   lastRefresh, queueOnce, refreshMux, loopCur, timerAt, defPc,
                   defWakeAt, fpc, fbody, callVars, signalled, now,
                   handlerCalled, served, v3Vars, readerVars>>

\* Once Get has returned a JWKS, the program goes on as in Next.
NextGet ==
    \/ \E resp \in GetResponses : Get(resp)
    \/ Next

SpecGet == InitGet /\ [][NextGet]_vars


\* ------------------------------------------- RawJWKS and ReadOnlyKeys
\* What the caller gets: val is the content, shared tells whether the value
\* returned has the storage of the JWKS's own field (the same backing array,
\* the same map) or storage of its own.
RawJWKSAliasMut == [of |-> "raw", val |-> raw, shared |-> TRUE]
\* make([]byte, len(j.raw)) and copy(raw, j.raw)
RawJWKS == [of |-> "raw", val |-> raw, shared |-> FALSE]

\* A fresh map filled entry by entry from j.keys.
ReadOnlyKeys == [of |-> "keys", val |-> keys, shared |-> FALSE]

\* The bytes after copy(raw, make([]byte, len(raw))): all zero.
ZeroedBytes == 7
\* Bytes that are neither the old nor the new j.raw.
TornBytes == 8
\* A key the caller puts into the map it was given.
ForeignKey == "x1"

\* j.mux.RLock() and make([]byte, len(j.raw)): the call holds the read lock
\* and has read j.raw once.
RawJWKSLock ==
    /\ built = "yes"
    /\ ~MuxReadLocked /\ ~MuxWriteLocked
    /\ got' = [of |-> "reading", val |-> raw, shared |-> FALSE]
    /\ UNCHANGED <<cfgVars, v1Vars, v3Vars>>

\* What copy(raw, j.raw) can leave in the slice made for the j.raw seen
\* first: j.raw itself, or, when j.raw was assigned in between, the old
\* bytes, the new ones or a mix of both.
ReadRace(seen) == IF seen = raw THEN {raw} ELSE {seen, raw, TornBytes}

\* copy(raw, j.raw), j.mux.RUnlock() and return.
RawJWKSCall ==
    /\ got.of = "reading"
    /\ \E v \in ReadRace(got.val) : got' = [RawJWKS EXCEPT !.val = v]
    /\ UNCHANGED <<cfgVars, v1Vars, v3Vars>>

\* make(map) and j.mux.Lock().
ReadOnlyKeysLock ==
    /\ built = "yes"
    /\ ~MuxReadLocked /\ ~MuxWriteLocked
    /\ got' = [of |-> "copying", val |-> 0, shared |-> FALSE]
    /\ UNCHANGED <<cfgVars, v1Vars, v3Vars>>

\* The entries are copied, j.mux.Unlock() and return.
ReadOnlyKeysCall ==
    /\ MuxWriteLocked
    /\ got' = ReadOnlyKeys
    /\ UNCHANGED <<cfgVars, v1Vars, v3Vars>>

\* The caller overwrites the slice it holds; a slice that shares its backing
\* array with j.raw takes j.raw with it.
OverwriteBytes ==
    /\ got.of = "raw"
    /\ got.val # ZeroedBytes
    /\ got' = [got EXCEPT !.val = ZeroedBytes]
    /\ raw' = IF got.shared THEN ZeroedBytes ELSE raw
    /\ UNCHANGED <<cfgVars, keys, ctxDone, refreshRequests, coordVars, callVars,
                   signalled, now, ghostVars, v3Vars>>

\* The caller adds, replaces (v a key) or deletes (v = NoKey) an entry of the
\* map it holds.
EditMap(k, v) ==
    /\ got.of = "keys"
    /\ got.val[k] # v
    /\ got' = [got EXCEPT !.val[k] = v]
    /\ keys' = IF got.shared THEN [keys EXCEPT ![k] = v] ELSE keys
    /\ UNCHANGED <<cfgVars, raw, ctxDone, refreshRequests, coordVars, callVars,
                   signalled, now, ghostVars, v3Vars>>

\* A JWKS built by Get without refresh interval and rate limit, its
\* background refresh for unknown kids if asked for, and callers that
\* resolve kids, take copies and write to them.
InitCopy ==
    /\ InitGet
    /\ refreshInterval = 0
    /\ refreshRateLimit = 0

NextCopy ==
    \/ \E resp \in GetResponses : Get(resp)
    \/ LoopStart
    \/ LoopRecv
    \/ LoopDone
    \/ LoopRefreshBegin
    \/ \E resp \in Responses : RefreshHTTP(LoopTask, resp)
    \/ RefreshReplace(LoopTask)
    \/ \E c \in Callers, kid \in KIDs \cup {NoKid} : KeyfuncCall(c, kid)
    \/ \E c \in Callers : GetKeyMiss(c)
    \/ \E c \in Callers : GetKeyWake(c)
    \/ EndBackground
    \/ RawJWKSLock
    \/ RawJWKSCall
    \/ ReadOnlyKeysLock
    \/ ReadOnlyKeysCall
    \/ OverwriteBytes
    \/ \E k \in KIDs, v \in {NoKey, ForeignKey} : EditMap(k, v)

SpecCopy == InitCopy /\ [][NextCopy]_vars

\* ------------------------------------------- newStorage and its goroutine
\* The get.go client is not built: its variables rest.
V1Rest ==
    /\ optionsCtx = "none"
    /\ built = "yes"
    /\ refreshInterval = 0
    /\ refreshRateLimit = 0
    /\ refreshUnknownKID = FALSE
    /\ keys = [k \in StoreKIDs |-> NoKey]
    /\ raw = NoBody
    /\ InitCoord
    /\ InitCallers
    /\ now = 0
    /\ fetchLog = << NoFetch, NoFetch >>
    /\ lastFetch = [res |-> "none", body |-> NoBody, replaced |-> FALSE]
    /\ handlerCalled = FALSE

\* Bodies every entry of which NewJWKFromMarshal accepts.
CleanBodyIds ==
    {b \in BodyIds : /\ BodyOf(b).json
                      /\ \A i \in 1..Len(BodyOf(b).keys) :
                            BodyOf(b).keys[i].kty \in SupportedKty}

\* refresh run to its end on storage s for a body all of whose entries are
\* accepted.
RefreshAll(b, s) ==
    LET w == WriteAll(BodyOf(b).keys, s)
    IN  IF givenKIDOverride THEN AddGivenAll(w) ELSE w

\* newStorage has returned: the given keys were added, the first refresh
\* succeeded or its failure was tolerated, and the goroutine was launched.
InitV3 ==
    /\ V1Rest
    /\ got = NoCopy
    /\ givenKIDOverride \in BOOLEAN
    /\ useWhitelist \in SUBSET Uses
    /\ \/ m = AddGivenAll([k \in KIDs |-> NoJWK])
       \/ \E b \in CleanBodyIds :
             m = RefreshAll(b, AddGivenAll([k \in KIDs |-> NoJWK]))
    /\ v3pc = "idle"
    /\ v3todo = << >>
    /\ v3jwks = NoBody
    /\ kres = V3Idle

\* After the last WriteKey of the loop: addGivenKeys when GivenKIDOverride.
AfterWrites == IF givenKIDOverride THEN "given" ELSE "idle"

\* case <-ticker.C: refresh runs up to the decoding of the body. A failed
\* round trip, extraction or decoding returns the error.
V3Fetch(resp) ==
    /\ v3pc = "idle"
    /\ IF resp = ErrResp \/ ~BodyOf(resp).json
       THEN UNCHANGED <<v3pc, v3todo, v3jwks>>
       ELSE /\ v3todo' = BodyOf(resp).keys
            /\ v3jwks' = resp
            /\ v3pc' = IF BodyOf(resp).keys = << >> THEN AfterWrites ELSE "write"
    /\ UNCHANGED <<cfgVars, v1Vars, readerVars, m, useWhitelist, kres>>

\* One turn of the loop over jwks.Keys: NewJWKFromMarshal, then m.WriteKey.
\* An entry that is refused ends the refresh with its error.
V3WriteKey ==
    /\ v3pc = "write"
    /\ LET e == Head(v3todo)
       IN  IF e.kty \notin SupportedKty
           THEN /\ v3pc' = "idle"
                /\ v3todo' = << >>
                /\ UNCHANGED <<m, v3jwks>>
           ELSE /\ m' = WriteKey(m, e)
                /\ v3todo' = Tail(v3todo)
                /\ UNCHANGED v3jwks
                /\ v3pc' = IF Tail(v3todo) = << >> THEN AfterWrites ELSE "write"
    /\ UNCHANGED <<cfgVars, v1Vars, readerVars, useWhitelist, kres>>

\* if options.GivenKIDOverride { addGivenKeys() }
V3AddGiven ==
    /\ v3pc = "given"
    /\ m' = AddGivenAll(m)
    /\ v3pc' = "idle"
    /\ UNCHANGED <<cfgVars, v1Vars, readerVars, v3todo, v3jwks, useWhitelist, kres>>

\* case <-options.Ctx.Done(): return
V3Done ==
    /\ v3pc = "idle"
    /\ v3pc' = "exit"
    /\ UNCHANGED <<cfgVars, v1Vars, readerVars, m, v3todo, v3jwks, useWhitelist, kres>>

\* A call of keyfunc.Keyfunc, from any goroutine.
V3Resolve(kid, alg) ==
    /\ kres' = Keyfunc(kid, alg, m, useWhitelist)
    /\ UNCHANGED <<cfgVars, v1Vars, readerVars, m, v3pc, v3todo, v3jwks, useWhitelist>>

NextV3 ==
    \/ \E resp \in Responses : V3Fetch(resp)
    \/ V3WriteKey
    \/ V3AddGiven
    \/ V3Done
    \/ \E kid \in KIDs \cup {NoKid}, alg \in Algs \cup {NoAlg} : V3Resolve(kid, alg)

SpecV3 == InitV3 /\ [][NextV3]_vars

\* The steps of the loop's goroutine, its timer apart, and those of the
\* deferred refresh goroutine d.
LoopStep ==
    \/ LoopStart
    \/ LoopRecv
    \/ LoopDone
    \/ LoopRateLimited
    \/ LoopRefreshBegin
    \/ \E resp \in Responses : RefreshHTTP(LoopTask, resp)
    \/ RefreshReplace(LoopTask)

DefStep(d) ==
    \/ DefComputeWait(d)
    \/ DefWake(d)
    \/ DefRefreshBegin(d)
    \/ \E resp \in Responses : RefreshHTTP(d, resp)
    \/ RefreshReplace(d)

\* The scheduling the Go runtime gives: a goroutine that can run, or that
\* keeps asking for a sync.Mutex others release, does run; a select takes
\* a case that stays ready; an HTTP round trip ends within refreshTimeout.
\* Nothing obliges the clock, the timer, new calls or EndBackground.
Fairness ==
    /\ SF_vars(LoopStep)
    /\ \A d \in DefIds : SF_vars(DefStep(d))
    /\ \A c \in Callers : WF_vars(GetKeyWake(c))

SpecLive == Init /\ [][Next]_vars /\ Fairness

\* ------------------------------------------------------------ properties
\* C1: a getKey that finishes for a kid absent from the key map at its
\* final read returns ErrKIDNotFound and no key; it never returns a nil
\* error with no key, the background context being cancelled or not.
C1_AbsentKidIsNotFound ==
    \A c \in Callers :
        (cpc[c] = "done" /\ ckid[c] # NoKid /\ cres[c].key = NoKey)
            => cres[c].err = "ErrKIDNotFound"

\* C2: Keyfunc never returns the key of a JWK whose non-empty alg differs
\* from the alg of the token: such a call fails with the alg mismatch error
\* and returns no key.
C2_AlgMismatchFails ==
    (kres.jwk.src # "none" /\ kres.jwk.alg # "" /\ kres.jwk.alg # kres.alg)
        => (kres.key = NoKey /\ kres.err = "ErrJWKAlgMismatch")

C2_Witness ==
    /\ kres.jwk.src # "none"
    /\ kres.jwk.alg \notin {"", kres.alg}
    /\ kres.err = "ErrJWKAlgMismatch"

\* C3: with GivenKIDOverride set, in every reachable state, a refresh
\* running or not, a call for the kid of a given key that returns a key
\* returns the given key, never the remote key.
C3_GivenKeyOverridesRemote ==
    (givenKIDOverride /\ kres.kid \in GivenKIDs /\ kres.key # NoKey)
        => kres.key = GivenMat(kres.kid)

\* C4 as stated: Keyfunc never returns the key of a JWK whose use is "enc",
\* whatever the whitelist, the empty one included.
C4_EncNeverReturned ==
    kres.key # NoKey => kres.jwk.use # "enc"

\* C4 amended: with a non-empty whitelist that does not hold "enc", Keyfunc
\* never returns the key of a JWK whose use is "enc".
C4_EncNeverReturnedWhenExcluded ==
    (useWhitelist # {} /\ "enc" \notin useWhitelist)
        => (kres.key # NoKey => kres.jwk.use # "enc")

C4_Witness ==
    /\ useWhitelist # {}
    /\ "enc" \notin useWhitelist
    /\ kres.jwk.use = "enc"
    /\ kres.key = NoKey
    /\ kres.err = "ErrJWKUseMismatch"

\* C5 as stated: with a non-empty whitelist, a call that reads a JWK whose
\* use is not in the whitelist, an absent use included, fails with the use
\* mismatch error and returns no key.
C5_UseOutsideWhitelistIsUseMismatch ==
    (useWhitelist # {} /\ kres.jwk.src # "none" /\ kres.jwk.use \notin useWhitelist)
        => (kres.key = NoKey /\ kres.err = "ErrJWKUseMismatch")

\* C5 amended: with a non-empty whitelist, a call that reads a JWK whose
\* use is not in the whitelist, an absent use included, returns no key; it
\* fails with the use mismatch error, unless the JWK's non-empty alg
\* differs from the token's, when it fails with the alg mismatch error.
C5_UseOutsideWhitelistFails ==
    (useWhitelist # {} /\ kres.jwk.src # "none" /\ kres.jwk.use \notin useWhitelist)
        => /\ kres.key = NoKey
           /\ kres.err = IF kres.jwk.alg # "" /\ kres.jwk.alg # kres.alg
                         THEN "ErrJWKAlgMismatch"
                         ELSE "ErrJWKUseMismatch"

C5_Witness ==
    /\ useWhitelist # {}
    /\ kres.jwk.src # "none"
    /\ kres.jwk.use = ""
    /\ kres.key = NoKey
    /\ kres.err = "ErrJWKUseMismatch"

\* C6: with a rate limit R > 0, any two consecutive refreshes of the
\* background goroutines, the loop's or the deferred one's, complete at
\* least R apart.
C6_RefreshesRateLimitApart ==
    (refreshRateLimit # 0 /\ fetchLog[1].by = "bg" /\ fetchLog[2].by = "bg")
        => fetchLog[2].t - fetchLog[1].t >= refreshRateLimit

\* C7: with a rate limit R > 0, no window of length R sees more than two
\* fetches complete, the constructor's included: a fetch completes (the
\* step that releases refreshMux) at least R after the last but one.
C7_AtMostTwoPerWindow ==
    [][(refreshMux # MuxFree /\ refreshMux' = MuxFree /\ fetchLog[1].by # "none")
          => now - fetchLog[1].t >= refreshRateLimit]_vars

C7_Witness ==
    /\ refreshRateLimit # 0
    /\ fetchLog[1].by = "bg"
    /\ fetchLog[2].by = "bg"
    /\ fetchLog[2].t - fetchLog[1].t < refreshRateLimit

\* C8: the requests dequeued while rate-limited, however many, leave exactly
\* one deferred refresh goroutine (none only once the context is
\* cancelled); its refresh does not start before the time it read as
\* lastRefresh + R, and once that time is reached it does start, unless the
\* goroutine returned on cancellation.
LiveDefs == {d \in DefIds : defPc[d] # "none"}

C8_ExactlyOneDeferredRefresh ==
    /\ [](/\ Cardinality(LiveDefs) <= 1
          /\ ~ctxDone => (queueOnce <=> Cardinality(LiveDefs) = 1)
          /\ \A d \in DefIds :
                defPc[d] \in {"lock2", "refresh"} => now >= defWakeAt[d])
    /\ [][(loopPc = "lock" /\ loopPc' = "select" /\ ~ctxDone)
             => (queueOnce' /\ Cardinality(LiveDefs') = 1)]_vars
    /\ \A d \in DefIds :
          (defPc[d] = "sleep" /\ now >= defWakeAt[d])
              ~> (defPc[d] \in {"refresh", "none"})

C8_Witness ==
    /\ ~ctxDone
    /\ queueOnce
    /\ \E d \in DefIds : defPc[d] = "refresh" /\ now >= defWakeAt[d]

\* C9: no caller of Keyfunc waits forever: a call that waits for its
\* refresh request returns.
C9_NoCallerWaitsForever ==
    \A c \in Callers : (cpc[c] = "wait") ~> (cpc[c] = "done")

C9_Witness ==
    \E c \in Callers :
        cpc[c] = "done" /\ served[c] = "nohit" /\ cres[c].err = "ErrKIDNotFound"

\* C10 as stated: a call whose request the loop dequeued while not
\* rate-limited, the fetch for it having returned nil for a body that holds
\* its kid as a valid key, returns the key.
C10_ServedCallReturnsKey ==
    \A c \in Callers :
        (cpc[c] = "done" /\ served[c] \in {"hit", "late", "lost"})
            => cres[c].key # NoKey

\* C10 amended: the loop cancels the handle of a request it dequeued while
\* not rate-limited only after the fetch for it has finished; a call that
\* was still waiting when that fetch returned nil for a body holding its
\* kid as a valid key returns the key, unless a later refresh took the kid
\* out of the key map before the call read it.
C10_SignalledAfterFetch ==
    \A c \in Callers :
        /\ (loopPc \in {"lock", "refresh"} /\ loopCur = c) => c \notin signalled
        /\ (cpc[c] = "done" /\ served[c] = "hit") => cres[c].key # NoKey

C10_Witness ==
    \E c \in Callers :
        cpc[c] = "done" /\ served[c] = "hit" /\ cres[c].key # NoKey

\* C11: a request dequeued while the rate limit is in force has its handle
\* cancelled at once, before and independently of any fetch: the waiting
\* call is never kept waiting by a refresh of the deferred goroutine.
C11_RateLimitedDemandNotBehindFetch ==
    \A c \in Callers :
        (/\ loopPc = "lock"
         /\ loopCur = c
         /\ cpc[c] = "wait"
         /\ refreshRateLimit # 0
         /\ lastRefresh + refreshRateLimit > now)
            => ~(refreshMux \in DefIds /\ fpc[refreshMux] = "http")

\* C12: the request channel never holds more than one request, and a call
\* for an unknown kid that finds it full returns ErrKIDNotFound in that
\* step: it sends nothing, does not wait and starts no fetch.
C12_FullQueueIsNotFound ==
    /\ [](Len(refreshRequests) <= 1)
    /\ [][\A c \in Callers :
            (/\ cpc[c] = "miss"
             /\ cpc'[c] # "miss"
             /\ refreshUnknownKID
             /\ Len(refreshRequests) >= 1)
                => /\ cpc'[c] = "done"
                   /\ cres'[c] = Res(NoKey, "ErrKIDNotFound")
                   /\ refreshRequests' = refreshRequests
                   /\ fpc' = fpc]_vars

\* C13: a reader concurrent with a refresh sees the complete map of before
\* or the complete merged map of after, never a map in between: every step
\* that changes the storage a reader can see ends the refresh.
C13_RefreshIsAtomicForReaders ==
    [][m' # m => v3pc' = "idle"]_vars

\* C14: a refresh replaces the map, it does not add to it: at the step that
\* ends a successful refresh the storage holds exactly the keys of the new
\* payload merged with the given keys, as a storage filled from nothing
\* would, so a kid only an earlier payload had is gone.
C14_RefreshReplacesMap ==
    [][(/\ v3pc' = "idle"
        /\ \/ v3pc = "given"
           \/ v3pc = "write" /\ Head(v3todo).kty \in SupportedKty
           \/ v3pc = "idle" /\ v3jwks' # v3jwks)
          => m' = RefreshAll(v3jwks', AddGivenAll([k \in KIDs |-> NoJWK]))]_vars

\* C15: after every refresh that replaced the key map, the map holds for each
\* given kid the given key when GivenKIDOverride is set or the remote
\* payload has no key of that kid, and the remote key otherwise; a given kid
\* is never missing from the map.
C15_GivenKeysMergedOnRefresh ==
    /\ \A g \in GivenKIDs : keys[g] # NoKey
    /\ (BodyOf(raw).json /\ \A t \in Tasks : fpc[t] # "parsed")
          => \A g \in GivenKIDs :
                keys[g] = IF givenKIDOverride \/ NewJSON(raw)[g] = NoKey
                          THEN GivenMat(g)
                          ELSE NewJSON(raw)[g]

\* A background refresh has replaced the map with a payload that lacks the
\* given kid, no override set: the given key is there.
C15_Witness ==
    /\ ~givenKIDOverride
    /\ fetchLog[2].by = "bg"
    /\ raw = 4
    /\ \A t \in Tasks : fpc[t] # "parsed"
    /\ \A g \in GivenKIDs : NewJSON(raw)[g] = NoKey /\ keys[g] = GivenMat(g)

\* C16: a refresh whose body is byte-equal to the stored raw payload returns
\* success and leaves the key map and the payload untouched, so of successive
\* successful refreshes that receive the same payload only the first can
\* replace the map.
C16_SamePayloadReplacesOnce ==
    [][\A t \in Tasks :
          /\ (fpc[t] = "http" /\ fpc'[t] = "none" /\ lastFetch'.body = raw)
                => (lastFetch'.res = "ok" /\ keys' = keys /\ raw' = raw)
          /\ (fpc[t] = "parsed" /\ fpc'[t] = "none" /\ lastFetch.res = "ok")
                => fbody[t] # lastFetch.body]_vars

\* One background refresh has run since Get, it received the payload Get
\* had stored, and it returned success.
C16_Witness ==
    /\ fetchLog[1].by = "ctor"
    /\ fetchLog[2].by = "bg"
    /\ lastFetch = [res |-> "ok", body |-> raw, replaced |-> FALSE]
    /\ raw \in InitBodyIds
    /\ keys = MergeGiven(NewJSON(raw))

\* C17: a refresh that ends in error leaves the store as it was: the key map
\* and the stored raw payload are those of before the refresh.
C17_FailedRefreshLeavesStore ==
    [][\A t \in Tasks :
          (fpc[t] # "none" /\ fpc'[t] = "none" /\ lastFetch'.res = "err")
              => (keys' = keys /\ raw' = raw)]_vars

\* C18: a refresh that fails in the background goroutines is passed to the
\* error handler and does not end them: the loop is back at its select (the
\* deferred goroutine re-arms queueOnce), the loop ends on cancellation
\* only, and a later refresh that parses a new payload updates the key map.
C18_FailedRefreshReportedLoopGoesOn ==
    /\ [](loopPc = "exit" => ctxDone)
    /\ [][\A t \in Tasks :
            /\ (fpc[t] # "none" /\ fpc'[t] = "none" /\ lastFetch'.res = "err")
                  => /\ handlerCalled'
                     /\ t = LoopTask => loopPc' = "select"
                     /\ t \in DefIds => ~queueOnce'
            /\ (fpc[t] = "parsed" /\ fpc'[t] = "none")
                  => /\ lastFetch'.res = "ok"
                     /\ keys' = MergeGiven(NewJSON(fbody[t]))]_vars

\* An error has been reported, the context is live, the loop is at its
\* select, and the last refresh, a later one, replaced the key map.
C18_Witness ==
    /\ handlerCalled
    /\ ~ctxDone
    /\ loopPc = "select"
    /\ lastFetch.res = "ok"
    /\ lastFetch.replaced
    /\ fetchLog[2].by = "bg"
    /\ keys = MergeGiven(NewJSON(lastFetch.body))

\* C19: once the context of the background goroutines is cancelled, the
\* error handler is not invoked and neither the loop nor the deferred
\* goroutine works on: no request is taken from the channel and no refresh
\* is begun or ended.
C19_NothingRunsAfterCancel ==
    [][ctxDone =>
          /\ \A t \in Tasks :
                ~(fpc[t] # "none" /\ fpc'[t] = "none" /\ lastFetch'.res = "err")
          /\ fpc' = fpc
          /\ ~(loopPc = "select" /\ loopPc' = "lock")]_vars

\* C20: once the context given as Options.Ctx is cancelled, or EndBackground
\* was called, the background goroutines fetch nothing more: no refresh of
\* theirs gets a body from the remote after that.
C20_NoFetchAfterCancel ==
    [][(ctxDone \/ optionsCtx = "done") =>
          \A t \in Tasks :
              fpc[t] = "http" =>
                  /\ fpc'[t] # "parsed"
                  /\ fpc'[t] = "none" => lastFetch'.body = NoBody]_vars

\* C21: when the first fetch fails, Get returns the error and no JWKS: no
\* background goroutine is launched, nothing is fetched afterwards and the
\* error handler is not invoked.
C21_FailedGetStartsNothing ==
    (fetchLog[2].by = "ctor" /\ lastFetch.res = "err")
        => /\ built = "failed"
           /\ loopPc = "none"
           /\ \A t \in Tasks : fpc[t] = "none"
           /\ keys = [k \in StoreKIDs |-> NoKey]
           /\ ~handlerCalled

\* Get has failed with options that ask for a background goroutine.
C21_Witness ==
    /\ built = "failed"
    /\ lastFetch.res = "err"
    /\ HasBackground
    /\ loopPc = "none"

\* C22: the first fetch having failed and been tolerated, the storage holds
\* no remote key; a Keyfunc call for a kid the storage lacks then triggers a
\* refresh (which, the remote now serving the key, lets the kid resolve):
\* it does not just fail with the refresh goroutine left idle.
C22_UnknownKidPopulatesToleratedStore ==
    [][(/\ \A k \in KIDs : m[k].src # "remote"
        /\ kres' # kres
        /\ kres'.kid \in KIDs
        /\ kres'.alg # NoAlg
        /\ m[kres'.kid].src = "none")
          => (v3pc' \in {"write", "given"} \/ kres'.key # NoKey)]_vars

\* C23: a response whose status is not 200 OK makes the refresh fail and
\* the key map is not replaced, a valid JWK Set in its body or not.
C23_Non200FailsRefresh ==
    BodyOf(lastFetch.body).status # "200"
        => /\ lastFetch.res = "err"
           /\ ~lastFetch.replaced
           /\ raw # lastFetch.body

C25_UndecodableEntrySkipped ==
    [][(/\ v3pc = "write"
        /\ v3todo' # v3todo
        /\ Head(v3todo).kty \notin SupportedKty)
          => /\ v3todo' = Tail(v3todo)
             /\ v3pc' = IF Tail(v3todo) = << >> THEN AfterWrites ELSE "write"
             /\ m' = m]_vars

\* C26: entries of the keys array with an empty kid are discarded: once a
\* payload has been parsed into the key map, the map holds nothing under the
\* empty kid.
C26_EmptyKidDiscarded ==
    keys[EmptyKid] = NoKey

C28_NoTimerRequestWithoutInterval ==
    /\ [](refreshInterval = 0 =>
            /\ \A i \in 1..Len(refreshRequests) : refreshRequests[i] # Noop
            /\ loopPc \in {"lock", "refresh"} => loopCur # Noop
            /\ fpc[LoopTask] # "none" => loopCur # Noop)
    /\ [][(refreshInterval = 0 /\ \E d \in DefIds : defPc[d] = "none" /\ defPc'[d] # "none")
            => loopCur # Noop]_vars

\* Without an interval, a demand has been served by a refresh of the loop
\* and another one by a deferred task.
C28_Witness ==
    /\ refreshInterval = 0
    /\ fetchLog[1].by = "bg"
    /\ fetchLog[2].by = "bg"
    /\ \E d \in DefIds : defPc[d] # "none"

\* C29: RawJWKS and ReadOnlyKeys return copies: whatever the caller does to
\* the value it holds, the JWKS's bytes and key map stay as they are, so
\* later RawJWKS, ReadOnlyKeys and Keyfunc calls return what they would have.
C29_ReturnedCopiesAreDetached ==
    [][(got.of # "none" /\ got'.of = got.of /\ got'.val # got.val)
          => (raw' = raw /\ keys' = keys /\ RawJWKS'.val = raw /\ ReadOnlyKeys'.val = keys)]_vars

\* The caller has zeroed the slice RawJWKS gave it and the JWKS still holds
\* the payload it fetched.
C29_Witness ==
    /\ got.of = "raw"
    /\ got.val = ZeroedBytes
    /\ raw \in BodyIds
    /\ RawJWKS.val = raw
    /\ keys = MergeGiven(NewJSON(raw))

\* C30: the refreshes of one JWKS are totally ordered: at most one goroutine
\* is inside j.refresh() at a time, and it is the one that holds refreshMux,
\* so the loop's refresh and a deferred goroutine's refresh never overlap.
C30_RefreshesNeverOverlap ==
    /\ Cardinality({t \in Tasks : fpc[t] # "none"}) <= 1
    /\ \A t \in Tasks : fpc[t] # "none" => refreshMux = t

\* A deferred goroutine is inside j.refresh() while the loop, with a request
\* in hand, waits for refreshMux.
C30_Witness ==
    /\ \E d \in DefIds : fpc[d] # "none" /\ refreshMux = d
    /\ loopPc = "lock"

\* C31: at most one deferred refresh goroutine exists at any time: a request
\* dequeued under the rate limit while queueOnce is used up launches nothing,
\* and queueOnce is renewed only by the step that ends the deferred
\* goroutine's refresh.
C31_AtMostOneDeferred ==
    /\ [](Cardinality({d \in DefIds : defPc[d] # "none"}) <= 1)
    /\ [][(\E d \in DefIds : defPc[d] = "none" /\ defPc'[d] # "none")
            => (~queueOnce /\ queueOnce')]_vars
    /\ [][(queueOnce /\ ~queueOnce')
            => \E d \in DefIds : /\ fpc[d] # "none"
                                 /\ fpc'[d] = "none"
                                 /\ defPc'[d] = "none"]_vars

\* A request is dequeued under the rate limit while the deferred goroutine
\* launched for an earlier one has not finished.
C31_Witness ==
    /\ queueOnce
    /\ \E d \in DefIds : defPc[d] # "none"
    /\ loopPc = "lock"
    /\ RateLimited

\* C32: demands do not starve the timer: with a refresh interval, the time
\* at which the loop's timer is due is put off only when the timer has come
\* due, so that a timer request is issued once per interval however often
\* demands are handled in between.
C32_DemandsDoNotPostponeTimer ==
    [][(refreshInterval # 0 /\ ~ctxDone /\ timerAt' > timerAt)
          => now >= timerAt]_vars

\* C33: j.raw is guarded by the lock that guards j.keys: no refresh assigns
\* j.raw while a RawJWKS call holds the read lock and reads it.
C33_RawWrittenUnderLock ==
    [][raw' # raw => got.of # "reading"]_vars

\* C34: RawJWKS and ReadOnlyKeys take the read lock only, so they never keep
\* another reader out: while either is under way, a Keyfunc call can look
\* its kid up.
C34_ReadersDoNotExcludeReaders ==
    \A c \in Callers :
        (got.of \in {"reading", "copying"} /\ cpc[c] \in {"idle", "done"})
            => \A kid \in KIDs : ENABLED KeyfuncCall(c, kid)

\* C35: cancelling the context of the background goroutine aborts the fetch
\* in flight: the HTTP round trip of a refresh that is under way when the
\* context is cancelled ends with an error, and the refresh leaves j.raw and
\* the key map as they are.
C35_CancelAbortsFetchInFlight ==
    [][\A t \in Tasks :
          (fpc[t] = "http" /\ ctxDone /\ fpc'[t] # "http")
              => /\ fpc'[t] = "none"
                 /\ lastFetch'.res = "err"
                 /\ keys' = keys
                 /\ raw' = raw]_vars

\* The context was cancelled while a refresh was waiting for the response;
\* the refresh has ended with an error and nothing was replaced.
C35_Witness ==
    /\ ctxDone
    /\ lastFetch = [res |-> "err", body |-> NoBody, replaced |-> FALSE]
    /\ fetchLog[2].by = "bg"
    /\ \A t \in Tasks : fpc[t] = "none"
    /\ served # [c \in Callers |-> "none"]

\* C36: lastRefresh is set after every refresh of the background goroutines,
\* a failed one included, so that with a rate limit the loop starts no
\* refresh of its own less than the rate limit after a failed one: the
\* request it dequeues then is handled as rate-limited.
C36_FailedFetchCountsForRateLimit ==
    /\ [][(\E t \in Tasks : fpc[t] # "none" /\ fpc'[t] = "none")
            => lastRefresh' = now]_vars
    /\ [][(/\ refreshRateLimit # 0
           /\ lastFetch.res = "err"
           /\ fetchLog[2].by = "bg"
           /\ now - fetchLog[2].t < refreshRateLimit)
            => ~(loopPc = "lock" /\ loopPc' = "refresh")]_vars

\* Less than the rate limit after a failed refresh, the loop has handled a
\* request as rate-limited: its caller is signalled and a deferred goroutine
\* is launched.
C36_Witness ==
    /\ refreshRateLimit # 0
    /\ lastFetch.res = "err"
    /\ fetchLog[2].by = "bg"
    /\ now - fetchLog[2].t < refreshRateLimit
    /\ loopPc = "select"
    /\ queueOnce
    /\ signalled # {}

C39_SuccessMeansMapIsParseOfBody ==
    [][\A t \in Tasks :
          (fpc[t] # "none" /\ fpc'[t] = "none" /\ lastFetch'.res = "ok")
              => /\ BodyOf(lastFetch'.body).json
                 /\ raw' = lastFetch'.body
                 /\ keys' = MergeGiven(NewJSON(lastFetch'.body))]_vars

\* C40: a Keyfunc call whose kid is in the key map returns the key at once:
\* it sends no request, does not wait and starts no refresh, with or without
\* refreshUnknownKID; only a call that missed sends a request.
C40_PresentKidNeverDemands ==
    [][\A c \in Callers :
          /\ (/\ cpc[c] \in {"idle", "done"}
              /\ <<cpc[c], ckid[c], cres[c]>>' # <<cpc[c], ckid[c], cres[c]>>
              /\ ckid'[c] \in KIDs
              /\ keys[ckid'[c]] # NoKey)
                => /\ cpc'[c] = "done"
                   /\ cres'[c] = Res(keys[ckid'[c]], "nil")
                   /\ Len(refreshRequests') = Len(refreshRequests)
                   /\ fpc' = fpc
          /\ (cpc[c] # "miss" /\ cpc'[c] = "miss") => keys[ckid'[c]] = NoKey
          /\ (cpc[c] # "wait" /\ cpc'[c] = "wait")
                => /\ cpc[c] = "miss"
                   /\ refreshUnknownKID
                   /\ refreshRequests' = Append(refreshRequests, c)
          /\ Len(refreshRequests') > Len(refreshRequests)
                => \/ refreshRequests'[Len(refreshRequests')] = Noop
                   \/ \E d \in Callers : cpc[d] = "miss" /\ cpc'[d] = "wait"]_vars

\* With refreshUnknownKID, a call for a kid of the key map has returned its
\* key; nothing is queued and nothing was fetched since Get.
C40_Witness ==
    /\ refreshUnknownKID
    /\ \E c \in Callers : /\ cpc[c] = "done"
                          /\ ckid[c] \in KIDs
                          /\ cres[c] = Res(keys[ckid[c]], "nil")
                          /\ keys[ckid[c]] # NoKey
    /\ refreshRequests = << >>
    /\ fetchLog[2].by = "ctor"

====
